---- MODULE Spec2Model ----
(***************************************************************************)
(* Model of the secure messaging services: MessageService.send_message,    *)
(* MessageService.read_message and the unread listings (services.py) over  *)
(* MessageRepository (repository.py) and CryptoManager (crypto.py).        *)
(*                                                                         *)
(* The "messages" collection is shared by every caller of the services.    *)
(* A caller is a session; a read_message call of a session is split at its *)
(* storage round trips (find_one, update_one), so that calls of different  *)
(* sessions interleave exactly where the code lets them.                   *)
(***************************************************************************)
EXTENDS Integers, Sequences, FiniteSets, TLC

VARIABLES
    messages,      \* the "messages" collection: a sequence of documents, _id = index
    pc,            \* per session: where its current service call stands
    call,          \* per session: arguments and local variables of the call
    result,        \* per session: the tuple returned by its last call
    revealed,      \* history: the _ids whose plaintext a read_message call has returned
    key_failures,  \* history: read_message calls that failed in decryption, counted
                   \* under SpecRetry only
    current_user   \* per session: SystemService.current_user of the caller

vars == <<messages, pc, call, result, revealed, key_failures, current_user>>

----------------------------------------------------------------------------
(* Bounds of the model *)

MaxMessages == 2      \* documents the collection may hold
MaxFailures == 2      \* key_failures stops counting here

\* The concurrent callers of the services. A race on a message is between two
\* calls, so two callers show every interleaving of a pair of calls.
Sessions == {"s1", "s2"}

----------------------------------------------------------------------------
(* Program constants *)

MinMessageLength51 == 50 + 1
min_message_length == 50
min_password_length == 8
salt_length == 16
nonce_length == 12

\* Status messages returned by the services (second component of the tuples).
NotFoundError == "Mensagem nao encontrada."
AccessDeniedError == "Acesso negado. Esta mensagem nao e sua."
AlreadyReadError == "Esta mensagem ja foi lida."
WrongKeyError == "Chave incorreta! Acesso negado."
ReadSuccess == "Mensagem lida com sucesso!"
SendSuccess == "Mensagem enviada com sucesso!"
ShortMessageError == "A mensagem deve ter pelo menos 50 caracteres."
\* f"Destinatario {to_user} nao encontrado."
RecipientError(to_user) ==
    "Destinatario " \o to_user[1] \o to_user[2] \o " nao encontrado."
WeakKeyError == "A chave secreta deve ter pelo menos 8 caracteres, contendo letras e numeros."
SaveError == "Erro ao salvar mensagem no banco de dados."
EncryptError == "Erro na criptografia"
InvalidDataError == "Dados criptografados invalidos."

----------------------------------------------------------------------------
(* Input domains *)

\* The user directory (the "users" collection; never written by the services).
\* A username is the sequence of its first character and the rest of it.
lucas == <<"@", "lucas">>
igor == <<"@", "igor">>
pedro == <<"@", "pedro">>
zeca == <<"@", "zeca">>
igor_no_at == <<"i", "gor">>

users == {lucas, igor, pedro}

\* Passphrases, as sequences of characters.
Secret123 == <<"S", "e", "c", "r", "e", "t", "1", "2", "3">>
Abcd1234 == <<"a", "b", "c", "d", "1", "2", "3", "4">>
Abcdefg == <<"a", "b", "c", "d", "e", "f", "g">>
Abcdefgh == <<"a", "b", "c", "d", "e", "f", "g", "h">>
EmptyKey == <<>>

\* The character U+00B2 (superscript two), and a passphrase ending in it.
SuperscriptTwo == "U+00B2"
AbcdefgSup2 == <<"a", "b", "c", "d", "e", "f", "g", SuperscriptTwo>>

\* The characters of these passphrases for which str.isalpha() and str.isdigit()
\* are true. str.isdigit() is true of the decimal digits and of the other digit
\* characters of Unicode, U+00B2 among them.
AlphaChars == {"a", "b", "c", "d", "e", "f", "g", "h", "r", "t", "S"}
DigitChars == {"1", "2", "3", "4", SuperscriptTwo}

\* Message bodies of 49, 50 and 52 characters.
Body49 == "Reuniao as dez horas na sala dois, leve os papeis"
Body50 == "Reuniao as dez horas na sala dois, leve os papeis."
Body52 == "O codigo do cofre mudou ontem, passe la em casa hoje"

\* Values a random salt and a random nonce may take: salt_length and nonce_length
\* bytes.
SaltValues == {[i \in 1..salt_length |-> 0]}
NonceValues == {[i \in 1..nonce_length |-> 0]}

\* send_message calls the sessions make: <<from_user, to_user, message, secret_key>>.
SendInputs ==
    { <<lucas, igor, Body52, Secret123>>,
      <<igor, pedro, Body50, Abcd1234>>,
      <<lucas, igor, Body49, Secret123>>,
      <<lucas, zeca, Body52, Secret123>>,
      <<lucas, igor_no_at, Body52, Secret123>>,
      <<lucas, igor, Body52, Abcdefg>>,
      <<lucas, igor, Body52, Abcdefgh>>,
      <<lucas, igor, Body52, EmptyKey>> }

\* The send_message call whose message the callers of SpecRetry read again and again.
RetryInputs == {<<lucas, igor, Body52, Secret123>>}

\* send_message calls that differ in the passphrase only.
Digits8 == <<"1", "2", "3", "4", "1", "2", "3", "4">>
PolicyKeys == {EmptyKey, Abcdefg, Abcdefgh, Abcd1234, Secret123, Digits8, AbcdefgSup2}
PolicyInputs == {<<lucas, igor, Body52, key>> : key \in PolicyKeys}

\* read_message arguments the sessions use; the _id after the last stored one
\* stands for every _id that matches no document.
ReadIds(msgs) == 1..(Len(msgs) + 1)
ReadKeys == {Secret123, Abcd1234, EmptyKey}
ReadUsers == users

None == [none |-> TRUE]
NoCall == [op |-> "none"]

\* None as the value of current_user: a value that is no username.
NoUser == <<"None">>

\* Usernames given to login: users, an unknown one, one without '@', the empty str.
LoginNames == users \cup {zeca, igor_no_at, <<>>}

----------------------------------------------------------------------------
(* crypto.py *)

\* str.encode('utf-8') / bytes.decode('utf-8')
Utf8Encode(text) == <<"utf8", text>>
Utf8Decode(bytes) == bytes[2]

\* _derive_key deriving the key from the salt alone.
DeriveKeyNoPassword(password, salt) == <<Utf8Encode(<<>>), salt>>

\* CryptoManager._derive_key: PBKDF2-HMAC-SHA256 of the encoded password under the
\* salt. The derived key is the symbolic term of its two inputs.
DeriveKey(password, salt) == <<Utf8Encode(password), salt>>

\* AESGCM.encrypt: the output is the ciphertext followed by the tag, each a symbolic
\* block of key, nonce and plaintext.
AesGcmEncrypt(key, nonce, plaintext) ==
    << [part |-> "ciphertext", key |-> key, nonce |-> nonce,
        plaintext |-> plaintext, intact |-> TRUE],
       [part |-> "tag", key |-> key, nonce |-> nonce,
        plaintext |-> plaintext, intact |-> TRUE] >>

\* AESGCM.decrypt accepting the ciphertext without verifying the tag.
AesGcmDecryptNoTag(key, nonce, data) ==
    IF Len(data) < 2
    THEN [ok |-> FALSE, value |-> "InvalidTag"]
    ELSE LET sealed == data[1]
         IN  IF sealed = [part |-> "ciphertext", key |-> key, nonce |-> nonce,
                          plaintext |-> sealed.plaintext, intact |-> TRUE]
             THEN [ok |-> TRUE, value |-> sealed.plaintext]
             ELSE [ok |-> FALSE, value |-> "InvalidTag"]

\* AESGCM.decrypt: the plaintext when data is the ciphertext and the tag made under
\* this key and nonce, unaltered; InvalidTag otherwise.
AesGcmDecrypt(key, nonce, data) ==
    IF Len(data) < 2
    THEN [ok |-> FALSE, value |-> "InvalidTag"]
    ELSE LET sealed == data[1]
             tag == data[2]
         IN  IF /\ sealed = [part |-> "ciphertext", key |-> key, nonce |-> nonce,
                             plaintext |-> sealed.plaintext, intact |-> TRUE]
                /\ tag = [part |-> "tag", key |-> key, nonce |-> nonce,
                          plaintext |-> sealed.plaintext, intact |-> TRUE]
             THEN [ok |-> TRUE, value |-> sealed.plaintext]
             ELSE [ok |-> FALSE, value |-> "InvalidTag"]

\* base64.b64encode(...).decode('utf-8') and base64.b64decode: a stored text is the
\* pair of its encoding and the bytes it encodes; b64decode raises on a text that
\* is not a valid encoding.
B64Encode(data) == <<"b64", data>>
B64Valid(text) == text[1] = "b64"
B64Decode(text) == text[2]

\* The empty str (the encoding of no bytes).
EmptyText == B64Encode(<<>>)

\* encrypt_message returning the message itself, as a text that is no base64.
EncryptMessagePlain(message, password, salt, nonce) == <<"plain", message>>

\* CryptoManager.encrypt_message, for the salt and nonce os.urandom returned:
\* base64 of salt + nonce + ciphertext.
EncryptMessage(message, password, salt, nonce) ==
    B64Encode(salt \o nonce
              \o AesGcmEncrypt(DeriveKey(password, salt), nonce, Utf8Encode(message)))

\* decrypt_message, lines 84-86: the three slices of the decoded bytes.
SaltOfShort(encrypted_data) == SubSeq(encrypted_data, 1, salt_length - 1)
SaltOf(encrypted_data) == SubSeq(encrypted_data, 1, salt_length)
NonceOf(encrypted_data) ==
    SubSeq(encrypted_data, salt_length + 1, salt_length + nonce_length)
CiphertextOf(encrypted_data) ==
    SubSeq(encrypted_data, salt_length + nonce_length + 1, Len(encrypted_data))

\* decrypt_message accepting any non-empty password (the tag is not verified).
DecryptMessageUnchecked(encrypted_b64, password) ==
    IF encrypted_b64 = EmptyText \/ password = <<>>
    THEN [ok |-> FALSE, derived |-> FALSE,
          value |-> "Dados criptografados e senha nao podem estar vazios."]
    ELSE [ok |-> TRUE, derived |-> TRUE,
          value |-> Utf8Decode(CiphertextOf(B64Decode(encrypted_b64))[1].plaintext)]

\* CryptoManager.decrypt_message: the plaintext, or the message of the exception it
\* raises; derived tells whether _derive_key was called. Every exception raised
\* inside its try block (b64decode, the length test, AESGCM.decrypt, decode) leaves
\* as Exception("Chave incorreta! Acesso negado.").
DecryptMessage(encrypted_b64, password) ==
    IF encrypted_b64 = EmptyText \/ password = <<>>
    THEN [ok |-> FALSE, derived |-> FALSE,
          value |-> "Dados criptografados e senha nao podem estar vazios."]
    ELSE IF ~B64Valid(encrypted_b64)
    THEN [ok |-> FALSE, derived |-> FALSE, value |-> WrongKeyError]
    ELSE LET encrypted_data == B64Decode(encrypted_b64)
         IN  IF Len(encrypted_data) < salt_length + nonce_length
             THEN [ok |-> FALSE, derived |-> FALSE, value |-> WrongKeyError]
             ELSE LET key == DeriveKey(password, SaltOf(encrypted_data))
                      opened == AesGcmDecrypt(key, NonceOf(encrypted_data),
                                              CiphertextOf(encrypted_data))
                  IN  IF opened.ok
                      THEN [ok |-> TRUE, derived |-> TRUE, value |-> Utf8Decode(opened.value)]
                      ELSE [ok |-> FALSE, derived |-> TRUE, value |-> WrongKeyError]

\* CryptoManager.validate_password_strength
ValidatePasswordStrength(password) ==
    /\ password # <<>>
    /\ Len(password) >= min_password_length
    /\ \E i \in 1..Len(password) : password[i] \in AlphaChars
    /\ \E i \in 1..Len(password) : password[i] \in DigitChars

\* The bytes of an envelope encrypt_message made, and the same bytes with the one at
\* position i altered (a byte of the salt or the nonce, the ciphertext, the tag).
ValidData == B64Decode(EncryptMessage(Body52, Secret123,
                                      [i \in 1..salt_length |-> 0],
                                      [i \in 1..nonce_length |-> 0]))

AlterAt(data, i) ==
    [data EXCEPT ![i] = IF i <= salt_length + nonce_length
                        THEN (@ + 1) % 256
                        ELSE [@ EXCEPT !.intact = FALSE]]

AlteredTexts == {B64Encode(AlterAt(ValidData, i)) : i \in 1..Len(ValidData)}

\* Texts that do not decode, or decode to fewer bytes than salt and nonce take.
MalformedTexts ==
    { <<"not base64", ValidData>>,
      EmptyText,
      B64Encode(SubSeq(ValidData, 1, salt_length + nonce_length - 1)) }

\* What the content_encrypted field of a document may hold once the database has
\* been written to from outside the services.
StoredTexts ==
    {B64Encode(ValidData), B64Encode(SubSeq(ValidData, 1, salt_length + nonce_length))}
    \cup AlteredTexts \cup MalformedTexts

----------------------------------------------------------------------------
(* repository.py *)

\* UserRepository.user_exists; db_ok is false when the lookup raises.
UserExists(username, db_ok) == db_ok /\ username \in users

\* create_message storing the two usernames in each other's field.
CreateMessageSwapped(msgs, from_user, to_user, encrypted_content, sent_at) ==
    Append(msgs, [from_user |-> to_user,
                  to_user |-> from_user,
                  content_encrypted |-> encrypted_content,
                  status |-> "unread",
                  sent_at |-> sent_at])

\* MessageRepository.create_message: the collection after insert_one.
CreateMessage(msgs, from_user, to_user, encrypted_content, sent_at) ==
    Append(msgs, [from_user |-> from_user,
                  to_user |-> to_user,
                  content_encrypted |-> encrypted_content,
                  status |-> "unread",
                  sent_at |-> sent_at])

\* get_message_by_id returning the newest document for an _id that matches none.
GetMessageByIdOrNewest(msgs, message_id, db_ok) ==
    IF db_ok /\ Len(msgs) > 0
    THEN msgs[IF message_id \in 1..Len(msgs) THEN message_id ELSE Len(msgs)]
    ELSE None

\* MessageRepository.get_message_by_id: the document, or None when there is no such
\* document or when find_one raises (db_ok false).
GetMessageById(msgs, message_id, db_ok) ==
    IF db_ok /\ message_id \in 1..Len(msgs) THEN msgs[message_id] ELSE None

\* mark_message_as_read returning matched_count > 0 instead of modified_count > 0.
MarkMessageAsReadMatched(msgs, message_id, db_ok) ==
    IF db_ok /\ message_id \in 1..Len(msgs)
    THEN [messages |-> [msgs EXCEPT ![message_id].status = "read"],
          returned |-> TRUE]
    ELSE [messages |-> msgs, returned |-> FALSE]

\* mark_message_as_read updating every document instead of the one of the _id.
MarkMessageAsReadMany(msgs, message_id, db_ok) ==
    IF db_ok /\ message_id \in 1..Len(msgs)
    THEN [messages |-> [id \in 1..Len(msgs) |-> [msgs[id] EXCEPT !.status = "read"]],
          returned |-> msgs[message_id].status # "read"]
    ELSE [messages |-> msgs, returned |-> FALSE]

\* mark_message_as_read flipping the status instead of setting it.
MarkMessageAsReadToggle(msgs, message_id, db_ok) ==
    IF db_ok /\ message_id \in 1..Len(msgs)
    THEN [messages |-> [msgs EXCEPT ![message_id].status =
                            IF @ = "read" THEN "unread" ELSE "read"],
          returned |-> TRUE]
    ELSE [messages |-> msgs, returned |-> FALSE]

\* MessageRepository.mark_message_as_read: update_one({_id}, {$set: {status: read}}).
\* The filter names the _id only. Gives the collection after the call and the
\* boolean the method returns (modified_count > 0).
MarkMessageAsRead(msgs, message_id, db_ok) ==
    IF db_ok /\ message_id \in 1..Len(msgs)
    THEN [messages |-> [msgs EXCEPT ![message_id].status = "read"],
          returned |-> msgs[message_id].status # "read"]
    ELSE [messages |-> msgs, returned |-> FALSE]

\* MessageRepository.get_unread_messages_count
GetUnreadMessagesCount(msgs, username, db_ok) ==
    IF db_ok
    THEN Cardinality({i \in 1..Len(msgs) :
                        msgs[i].to_user = username /\ msgs[i].status = "unread"})
    ELSE 0

\* cursor.sort("sent_at", -1): the _ids of ids, newest sent_at first.
RECURSIVE SortBySentAtDesc(_, _)
SortBySentAtDesc(msgs, ids) ==
    IF ids = {} THEN <<>>
    ELSE LET newest == CHOOSE i \in ids :
                          \A j \in ids : \/ msgs[j].sent_at < msgs[i].sent_at
                                         \/ (msgs[j].sent_at = msgs[i].sent_at /\ i <= j)
         IN  <<newest>> \o SortBySentAtDesc(msgs, ids \ {newest})

\* MessageRepository.get_unread_messages_by_user: the matching documents, named by
\* their _id, newest first; the empty list when find raises.
GetUnreadMessagesByUser(msgs, username, db_ok) ==
    IF db_ok
    THEN SortBySentAtDesc(msgs, {i \in 1..Len(msgs) :
                                   msgs[i].to_user = username /\ msgs[i].status = "unread"})
    ELSE <<>>

----------------------------------------------------------------------------
(* services.py *)

\* validate_recipient accepting every recipient.
ValidateRecipientAny(recipient, db_ok) == TRUE

\* UserService.validate_recipient
ValidateRecipient(recipient, db_ok) ==
    /\ Len(recipient) > 0 /\ recipient[1] = "@"
    /\ UserExists(recipient, db_ok)

\* ReadCheck testing the status before the recipient.
ReadCheckStatusFirst(message, username) ==
    IF message = None THEN NotFoundError
    ELSE IF message.status = "read" THEN AlreadyReadError
    ELSE IF message.to_user # username THEN AccessDeniedError
    ELSE "decrypt"

\* ReadCheck without the already-read test of lines 327-329.
ReadCheckNoStatus(message, username) ==
    IF message = None THEN NotFoundError
    ELSE IF message.to_user # username THEN AccessDeniedError
    ELSE "decrypt"

\* ReadCheck without the recipient test of lines 323-325.
ReadCheckNoOwner(message, username) ==
    IF message = None THEN NotFoundError
    ELSE IF message.status = "read" THEN AlreadyReadError
    ELSE "decrypt"

\* ReadCheck comparing the requester with from_user instead of to_user.
ReadCheckSender(message, username) ==
    IF message = None THEN NotFoundError
    ELSE IF message.from_user # username THEN AccessDeniedError
    ELSE IF message.status = "read" THEN AlreadyReadError
    ELSE "decrypt"

\* ReadCheck returning the access-denied tuple for a message already read.
ReadCheckWrongStatusMessage(message, username) ==
    IF message = None THEN NotFoundError
    ELSE IF message.to_user # username THEN AccessDeniedError
    ELSE IF message.status = "read" THEN AccessDeniedError
    ELSE "decrypt"

\* MessageService.read_message, lines 320-329: what the call does with the fetched
\* document before any decryption.
ReadCheck(message, username) ==
    IF message = None THEN NotFoundError
    ELSE IF message.to_user # username THEN AccessDeniedError
    ELSE IF message.status = "read" THEN AlreadyReadError
    ELSE "decrypt"

Init ==
    /\ messages = <<>>
    /\ pc = [p \in Sessions |-> "idle"]
    /\ call = [p \in Sessions |-> NoCall]
    /\ result = [p \in Sessions |-> None]
    /\ revealed = {}
    /\ key_failures = 0
    /\ current_user = [p \in Sessions |-> NoUser]

\* datetime.utcnow() at an insert: later than every stored sent_at.
Now(msgs) == Len(msgs) + 1

\* A session may begin a call when it has none running and every finished call
\* has handed its tuple back to its caller. Handing back (ReturnResult) is a local
\* step of the caller, so this orders no storage round trip.
Idle(p) == pc[p] = "idle" /\ \A q \in Sessions : pc[q] # "done"

\* The return statement of a service method: the tuple is the session's result.
Finish(p, value) ==
    /\ pc' = [pc EXCEPT ![p] = "done"]
    /\ result' = [result EXCEPT ![p] = value]

\* The caller takes the returned tuple; the session is free for its next call.
ReturnResult(p) ==
    /\ pc[p] = "done"
    /\ pc' = [pc EXCEPT ![p] = "idle"]
    /\ call' = [call EXCEPT ![p] = NoCall]
    /\ result' = [result EXCEPT ![p] = None]
    /\ UNCHANGED <<messages, revealed, key_failures, current_user>>

\* A return of send_message: the tuple, and in the call record whether
\* encrypt_message and create_message were called before it.
SendReturn(p, input, encrypt_called, create_called, value) ==
    /\ call' = [call EXCEPT ![p] = [op |-> "send", input |-> input,
                                    encrypt_called |-> encrypt_called,
                                    create_called |-> create_called]]
    /\ Finish(p, value)

\* MessageService.send_message called with one of inputs: validation, encryption,
\* insert_one. encrypt_ok is false when encrypt_message raises, insert_ok when
\* insert_one raises.
SendCall(p, inputs) ==
    /\ Idle(p)
    /\ \E input \in inputs :
         LET from_user == input[1]
             to_user == input[2]
             message == input[3]
             secret_key == input[4]
         IN  IF Len(message) < min_message_length
             THEN /\ SendReturn(p, input, FALSE, FALSE, <<FALSE, ShortMessageError>>)
                  /\ UNCHANGED messages
             ELSE \E users_ok \in BOOLEAN :
               IF ~ValidateRecipient(to_user, users_ok)
               THEN /\ SendReturn(p, input, FALSE, FALSE, <<FALSE, RecipientError(to_user)>>)
                    /\ UNCHANGED messages
               ELSE IF ~ValidatePasswordStrength(secret_key)
               THEN /\ SendReturn(p, input, FALSE, FALSE, <<FALSE, WeakKeyError>>)
                    /\ UNCHANGED messages
               ELSE \E encrypt_ok \in BOOLEAN :
                 IF ~encrypt_ok
                 THEN /\ SendReturn(p, input, TRUE, FALSE, <<FALSE, EncryptError>>)
                      /\ UNCHANGED messages
                 ELSE \E salt \in SaltValues, nonce \in NonceValues, insert_ok \in BOOLEAN :
                   IF insert_ok /\ Len(messages) < MaxMessages
                   THEN /\ messages' = CreateMessage(messages, from_user, to_user,
                                           EncryptMessage(message, secret_key, salt, nonce),
                                           Now(messages))
                        /\ SendReturn(p, input, TRUE, TRUE, <<TRUE, SendSuccess>>)
                   ELSE /\ SendReturn(p, input, TRUE, TRUE, <<FALSE, SaveError>>)
                        /\ UNCHANGED messages

SendMessage(p) ==
    /\ SendCall(p, SendInputs)
    /\ UNCHANGED <<revealed, key_failures, current_user>>

\* send_message called with the arguments of RetryInputs.
SendMessageRetry(p) ==
    /\ SendCall(p, RetryInputs)
    /\ UNCHANGED <<revealed, key_failures, current_user>>

\* send_message called with each of the passphrases of PolicyKeys.
SendMessagePolicy(p) ==
    /\ SendCall(p, PolicyInputs)
    /\ UNCHANGED <<revealed, key_failures, current_user>>

\* MessageService.get_unread_messages_count
UnreadCount(p) ==
    /\ Idle(p)
    /\ \E username \in ReadUsers, db_ok \in BOOLEAN :
         /\ call' = [call EXCEPT ![p] = [op |-> "count", username |-> username]]
         /\ Finish(p, <<GetUnreadMessagesCount(messages, username, db_ok)>>)
    /\ UNCHANGED <<messages, revealed, key_failures, current_user>>

\* get_unread_messages_grouped, lines 268-278: the listed documents, named by their
\* _id, under the from_user of each, in the order of the list.
GroupBySender(msgs, listed) ==
    [sender \in {msgs[listed[i]].from_user : i \in 1..Len(listed)} |->
        SelectSeq(listed, LAMBDA id : msgs[id].from_user = sender)]

\* MessageService.get_unread_messages_grouped: the unread documents of username,
\* grouped by sender. find_ok is false when find raised; messages is the list the
\* repository returned.
UnreadList(p) ==
    /\ Idle(p)
    /\ \E username \in ReadUsers, db_ok \in BOOLEAN :
         LET listed == GetUnreadMessagesByUser(messages, username, db_ok)
         IN  /\ call' = [call EXCEPT ![p] = [op |-> "list", username |-> username,
                                             find_ok |-> db_ok, messages |-> listed]]
             /\ Finish(p, <<GroupBySender(messages, listed)>>)
    /\ UNCHANGED <<messages, revealed, key_failures, current_user>>

\* MessageService.read_message, lines 316-329: get_message_by_id and the checks on
\* the fetched document.
ReadFetch(p) ==
    /\ Idle(p)
    /\ \E message_id \in ReadIds(messages), secret_key \in ReadKeys,
          username \in ReadUsers, db_ok \in BOOLEAN :
         LET message == GetMessageById(messages, message_id, db_ok)
             outcome == ReadCheck(message, username)
         IN  /\ call' = [call EXCEPT ![p] =
                           [op |-> "read", message_id |-> message_id,
                            secret_key |-> secret_key, username |-> username,
                            message |-> message, decrypted_content |-> ""]]
             /\ IF outcome = "decrypt"
                THEN /\ pc' = [pc EXCEPT ![p] = "decrypt"]
                     /\ result' = [result EXCEPT ![p] = None]
                ELSE Finish(p, <<FALSE, outcome, "">>)
    /\ UNCHANGED <<messages, revealed, key_failures, current_user>>

\* read_message going on to the status update when decrypt_message raised.
ReadDecryptStepThenMark(p) ==
    /\ pc[p] = "decrypt"
    /\ LET decrypted == DecryptMessage(call[p].message.content_encrypted,
                                       call[p].secret_key)
       IN  /\ pc' = [pc EXCEPT ![p] = "mark"]
           /\ call' = [call EXCEPT ![p].decrypted_content =
                                      IF decrypted.ok THEN decrypted.value ELSE ""]
           /\ UNCHANGED result
    /\ UNCHANGED <<messages, revealed, current_user>>

\* read_message reporting a text that could not be decoded or sliced with a message
\* of its own instead of the one of line 351.
ReadDecryptStepByCause(p) ==
    /\ pc[p] = "decrypt"
    /\ LET decrypted == DecryptMessage(call[p].message.content_encrypted,
                                       call[p].secret_key)
       IN  IF decrypted.ok
           THEN /\ pc' = [pc EXCEPT ![p] = "mark"]
                /\ call' = [call EXCEPT ![p].decrypted_content = decrypted.value]
                /\ UNCHANGED result
           ELSE /\ Finish(p, <<FALSE,
                               IF decrypted.derived THEN WrongKeyError ELSE InvalidDataError,
                               "">>)
                /\ UNCHANGED call
    /\ UNCHANGED <<messages, revealed, current_user>>

\* MessageService.read_message, lines 332-337 and 348-351: decrypt_message.
ReadDecryptStep(p) ==
    /\ pc[p] = "decrypt"
    /\ LET decrypted == DecryptMessage(call[p].message.content_encrypted,
                                       call[p].secret_key)
       IN  IF decrypted.ok
           THEN /\ pc' = [pc EXCEPT ![p] = "mark"]
                /\ call' = [call EXCEPT ![p].decrypted_content = decrypted.value]
                /\ UNCHANGED result
           ELSE /\ Finish(p, <<FALSE, WrongKeyError, "">>)
                /\ UNCHANGED call
    /\ UNCHANGED <<messages, revealed, current_user>>

ReadDecrypt(p) == ReadDecryptStep(p) /\ UNCHANGED key_failures

\* The same step, counting in key_failures the calls that end in the except branch
\* while no other call is running: any call begun later began after them.
ReadDecryptCounted(p) ==
    /\ ReadDecryptStep(p)
    /\ key_failures' = IF /\ pc'[p] = "done"
                          /\ \A q \in Sessions \ {p} : pc[q] = "idle"
                          /\ key_failures < MaxFailures
                       THEN key_failures + 1
                       ELSE key_failures

\* MessageService.read_message, lines 339-346: mark_message_as_read, whose returned
\* boolean is dropped, then the successful return.
ReadMark(p) ==
    /\ pc[p] = "mark"
    /\ \E db_ok \in BOOLEAN :
         messages' = MarkMessageAsRead(messages, call[p].message_id, db_ok).messages
    /\ Finish(p, <<TRUE, ReadSuccess, call[p].decrypted_content>>)
    /\ revealed' = revealed \cup {call[p].message_id}
    /\ UNCHANGED <<call, key_failures, current_user>>

Next ==
    \E p \in Sessions :
        \/ SendMessage(p)
        \/ UnreadCount(p)
        \/ UnreadList(p)
        \/ ReadFetch(p)
        \/ ReadDecrypt(p)
        \/ ReadMark(p)
        \/ ReturnResult(p)

Spec == Init /\ [][Next]_vars

NextRetry ==
    \E p \in Sessions :
        \/ SendMessageRetry(p)
        \/ UnreadCount(p)
        \/ UnreadList(p)
        \/ ReadFetch(p)
        \/ ReadDecryptCounted(p)
        \/ ReadMark(p)
        \/ ReturnResult(p)

SpecRetry == Init /\ [][NextRetry]_vars

\* The collection holds two documents sent by @lucas to @igor with "Secret123", the
\* second with a content_encrypted of StoredTexts; the callers read them.
InitEnvelope ==
    /\ \E text \in StoredTexts :
         messages = << [from_user |-> lucas, to_user |-> igor,
                        content_encrypted |-> B64Encode(ValidData),
                        status |-> "unread", sent_at |-> 1],
                       [from_user |-> lucas, to_user |-> igor,
                        content_encrypted |-> text,
                        status |-> "unread", sent_at |-> 2] >>
    /\ pc = [p \in Sessions |-> "idle"]
    /\ call = [p \in Sessions |-> NoCall]
    /\ result = [p \in Sessions |-> None]
    /\ revealed = {}
    /\ key_failures = 0
    /\ current_user = [p \in Sessions |-> NoUser]

NextEnvelope ==
    \E p \in Sessions :
        \/ ReadFetch(p)
        \/ ReadDecrypt(p)
        \/ ReadMark(p)
        \/ ReturnResult(p)

SpecEnvelope == InitEnvelope /\ [][NextEnvelope]_vars

\* UserService.authenticate_user; db_ok is false when the lookup raises.
AuthenticateUser(username, db_ok) ==
    /\ Len(username) > 0 /\ username[1] = "@"
    /\ UserExists(username, db_ok)

\* login setting current_user to None when the authentication failed.
LoginUserOrNone(current, username, authenticated) ==
    IF authenticated THEN username ELSE NoUser

\* SystemService.login, lines 429-435: current_user after the call.
LoginUser(current, username, authenticated) ==
    IF authenticated THEN username ELSE current

\* SystemService.logout, lines 442-444: current_user after the call.
LogoutUser(current) ==
    IF current # NoUser /\ current # <<>> THEN NoUser ELSE current

\* SystemService.login
Login(p) ==
    /\ Idle(p)
    /\ \E username \in LoginNames, db_ok \in BOOLEAN :
         LET authenticated == AuthenticateUser(username, db_ok)
         IN  /\ current_user' = [current_user EXCEPT ![p] =
                                    LoginUser(@, username, authenticated)]
             /\ call' = [call EXCEPT ![p] = [op |-> "login", username |-> username]]
             /\ Finish(p, <<authenticated>>)
    /\ UNCHANGED <<messages, revealed, key_failures>>

\* SystemService.logout
Logout(p) ==
    /\ Idle(p)
    /\ current_user' = [current_user EXCEPT ![p] = LogoutUser(@)]
    /\ call' = [call EXCEPT ![p] = [op |-> "logout"]]
    /\ Finish(p, None)
    /\ UNCHANGED <<messages, revealed, key_failures>>

\* SystemService.shutdown: logout, then the connection is closed.
Shutdown(p) ==
    /\ Idle(p)
    /\ current_user' = [current_user EXCEPT ![p] = LogoutUser(@)]
    /\ call' = [call EXCEPT ![p] = [op |-> "shutdown"]]
    /\ Finish(p, None)
    /\ UNCHANGED <<messages, revealed, key_failures>>

\* The callers log in, log out and shut down.
NextLogin ==
    \E p \in Sessions :
        \/ Login(p)
        \/ Logout(p)
        \/ Shutdown(p)
        \/ ReturnResult(p)

SpecLogin == Init /\ [][NextLogin]_vars

\* A caller of the repository calls mark_message_as_read with any _id; the tuple
\* holds the boolean the method returns.
MarkCall(p) ==
    /\ Idle(p)
    /\ \E message_id \in ReadIds(messages), db_ok \in BOOLEAN :
         LET marked == MarkMessageAsRead(messages, message_id, db_ok)
         IN  /\ messages' = marked.messages
             /\ call' = [call EXCEPT ![p] = [op |-> "mark", message_id |-> message_id]]
             /\ Finish(p, <<marked.returned>>)
    /\ UNCHANGED <<revealed, key_failures, current_user>>

\* The callers send, list, and call mark_message_as_read of the repository.
NextMark ==
    \E p \in Sessions :
        \/ SendMessage(p)
        \/ UnreadList(p)
        \/ MarkCall(p)
        \/ ReturnResult(p)

SpecMark == Init /\ [][NextMark]_vars

\* The callers only send, with the passphrases of PolicyKeys.
NextSend ==
    \E p \in Sessions :
        \/ SendMessagePolicy(p)
        \/ ReturnResult(p)

SpecSend == Init /\ [][NextSend]_vars

----------------------------------------------------------------------------
(* Vocabulary of the properties *)

\* The passphrase and the body a stored document was sealed with.
SentKey(doc) == Utf8Decode(CiphertextOf(B64Decode(doc.content_encrypted))[1].key[1])
Plaintext(doc) == Utf8Decode(CiphertextOf(B64Decode(doc.content_encrypted))[1].plaintext)

IsRead(p) == call[p].op = "read"
Done(p) == pc[p] = "done"
Stored(id) == id \in 1..Len(messages)

\* The call of p fetched the document (find_one returned it).
Fetched(p) == IsRead(p) /\ call[p].message # None

\* The call of p is by the recipient of the fetched document, with the passphrase
\* used at send.
ByRecipient(p) == Fetched(p) /\ call[p].username = call[p].message.to_user
WithSentKey(p) == Fetched(p) /\ call[p].secret_key = SentKey(call[p].message)

Succeeded(p) ==
    Done(p) /\ Fetched(p)
    /\ result[p] = <<TRUE, ReadSuccess, Plaintext(call[p].message)>>
FailedWith(p, error) == Done(p) /\ IsRead(p) /\ result[p] = <<FALSE, error, "">>

\* In this step session p begins a read_message call (ReadFetch).
BeginsRead(p) == pc[p] = "idle" /\ pc'[p] # "idle" /\ call'[p].op = "read"

----------------------------------------------------------------------------
(* C1..C10: the one-shot read *)

\* C1: two read_message calls by the recipient with the passphrase used at send,
\* running concurrently on a message they both fetched unread, end with exactly one
\* of them returning the plaintext and the other returning AlreadyReadError and no
\* plaintext. (Two sessions hold a finished call at once only if the calls overlapped.)
C1_ExactlyOneReaderWins ==
    \A p, q \in Sessions :
        (/\ p # q
         /\ Done(p) /\ Done(q)
         /\ ByRecipient(p) /\ ByRecipient(q)
         /\ WithSentKey(p) /\ WithSentKey(q)
         /\ call[p].message_id = call[q].message_id
         /\ call[p].message.status = "unread" /\ call[q].message.status = "unread")
        => \/ Succeeded(p) /\ FailedWith(q, AlreadyReadError)
           \/ Succeeded(q) /\ FailedWith(p, AlreadyReadError)

\* C2: over any interleaving of read attempts the plaintext of a message is returned
\* at most once: a call returns it only if no call returned it before.
C2_PlaintextAtMostOnce ==
    [][\A p \in Sessions :
          (pc[p] # "done" /\ pc'[p] = "done" /\ call'[p].op = "read" /\ result'[p][1])
          => call'[p].message_id \notin revealed]_vars

\* C3: once read_message has returned the plaintext of a message, the stored status
\* of that message is "read", also when the update did not apply or failed.
C3_RevealedIsRead ==
    \A id \in revealed : Stored(id) /\ messages[id].status = "read"

\* C4: once the stored status of a message is "read", every read_message call by its
\* recipient that begins afterwards and fetches it returns AlreadyReadError and no
\* plaintext, whatever the passphrase.
C4_ReadGatesLaterAttempts ==
    [][\A p \in Sessions :
          (/\ BeginsRead(p)
           /\ call'[p].message # None
           /\ Stored(call'[p].message_id)
           /\ messages[call'[p].message_id].status = "read"
           /\ call'[p].username = messages[call'[p].message_id].to_user)
          => /\ pc'[p] = "done"
             /\ result'[p] = <<FALSE, AlreadyReadError, "">>]_vars

C4_Witness ==
    \E p \in Sessions :
        /\ FailedWith(p, AlreadyReadError)
        /\ ByRecipient(p) /\ WithSentKey(p)
        /\ messages[call[p].message_id].status = "read"

\* C5: a call that decrypted the message but finds it no longer unread at its status
\* update returns AlreadyReadError and no plaintext; a call returns the plaintext only
\* if its own update changed the message from "unread" to "read".
C5_OnlyTheWinnerReveals ==
    [][\A p \in Sessions :
          (pc[p] = "mark" /\ pc'[p] # "mark")
          => LET id == call[p].message_id
             IN  /\ messages[id].status # "unread"
                      => pc'[p] = "done" /\ result'[p] = <<FALSE, AlreadyReadError, "">>
                 /\ result'[p][1]
                      => messages[id].status = "unread" /\ messages'[id].status = "read"]_vars

\* C6: the status of a message is monotonic: a stored message that is "read" stays
\* stored and "read" in every step of send, read, list and count.
C6_StatusMonotonic ==
    [][\A id \in 1..Len(messages) :
          messages[id].status = "read"
          => Len(messages') >= id /\ messages'[id].status = "read"]_vars

C6_Witness ==
    /\ Len(messages) = 2
    /\ messages[1].status = "read"
    /\ messages[2].status = "read"

\* C7: a read_message call by anyone but the recipient of a stored message never gets
\* to decrypt_message and never returns the plaintext, whatever its passphrase and
\* whatever the status of the message: it is finished, failed, in the checks.
C7_OnlyRecipientDecrypts ==
    \A p \in Sessions :
        (/\ IsRead(p)
         /\ Stored(call[p].message_id)
         /\ call[p].username # messages[call[p].message_id].to_user)
        => /\ pc[p] = "done"
           /\ result[p] \in {<<FALSE, AccessDeniedError, "">>, <<FALSE, NotFoundError, "">>}

C7_Witness ==
    \E p \in Sessions :
        /\ FailedWith(p, AccessDeniedError)
        /\ WithSentKey(p)
        /\ call[p].username = call[p].message.from_user
        /\ call[p].message.status = "unread"

\* C8: a read_message call that fetches a message whose to_user is not the requester
\* returns AccessDeniedError and changes no stored message.
C8_AccessDeniedChangesNothing ==
    [][\A p \in Sessions :
          (/\ BeginsRead(p)
           /\ call'[p].message # None
           /\ call'[p].username # call'[p].message.to_user)
          => /\ pc'[p] = "done"
             /\ result'[p] = <<FALSE, AccessDeniedError, "">>
             /\ messages' = messages]_vars

C8_Witness ==
    \E p \in Sessions :
        /\ FailedWith(p, AccessDeniedError)
        /\ Len(messages) = 2
        /\ \E id \in 1..2 : messages[id].status = "read"
        /\ \E id \in 1..2 : messages[id].status = "unread"

\* C9: a read_message call by the recipient that fetches the message with status
\* "read" returns AlreadyReadError; it never gets to decrypt_message nor to the status
\* update, and its one step leaves the collection unchanged.
C9_AlreadyReadStopsTheCall ==
    /\ [](\A p \in Sessions :
            (ByRecipient(p) /\ call[p].message.status = "read")
            => FailedWith(p, AlreadyReadError))
    /\ [][\A p \in Sessions :
            (/\ BeginsRead(p)
             /\ call'[p].message # None
             /\ call'[p].message.status = "read"
             /\ call'[p].username = call'[p].message.to_user)
            => messages' = messages]_vars

C9_Witness ==
    \E p \in Sessions :
        /\ FailedWith(p, AlreadyReadError)
        /\ ByRecipient(p)
        /\ call[p].secret_key # SentKey(call[p].message)

\* C10: a read_message call by the recipient with another passphrase than the one used
\* at send fails with no plaintext and leaves the collection as it was; a call by the
\* recipient with the passphrase used at send that fetched the message unread returns
\* the plaintext, however many calls failed in decryption before (no lockout).
C10_WrongKeyFailsRetrySucceeds ==
    [][\A p \in Sessions :
          /\ (pc[p] = "decrypt" /\ pc'[p] # "decrypt" /\ ~WithSentKey(p))
             => /\ pc'[p] = "done"
                /\ result'[p] = <<FALSE, WrongKeyError, "">>
                /\ messages' = messages
          /\ (pc[p] = "decrypt" /\ pc'[p] # "decrypt" /\ WithSentKey(p))
             => pc'[p] = "mark"
          /\ (pc[p] = "mark" /\ pc'[p] # "mark")
             => /\ pc'[p] = "done"
                /\ result'[p] = <<TRUE, ReadSuccess, Plaintext(call[p].message)>>
          /\ (/\ BeginsRead(p)
              /\ call'[p].message # None
              /\ call'[p].message.status = "unread"
              /\ call'[p].username = call'[p].message.to_user)
             => pc'[p] = "decrypt"]_vars

C10_Witness ==
    \E p \in Sessions :
        /\ key_failures = MaxFailures
        /\ Len(messages) = 1
        /\ Succeeded(p)
        /\ ByRecipient(p)

----------------------------------------------------------------------------
(* C11..C15: send_message *)

IsSend(p) == call[p].op = "send"

\* In this step session p makes a send_message call (it runs to its return).
SendStep(p) == pc[p] = "idle" /\ pc'[p] = "done" /\ call'[p].op = "send"

\* C11: a send_message call that returns success adds exactly one document to the
\* collection, the others staying as they were; the new document has status
\* "unread" and the from_user and to_user the call was given.
C11_SendStoresUnread ==
    [][\A p \in Sessions :
          (SendStep(p) /\ result'[p] = <<TRUE, SendSuccess>>)
          => /\ Len(messages') = Len(messages) + 1
             /\ SubSeq(messages', 1, Len(messages)) = messages
             /\ messages'[Len(messages')].status = "unread"
             /\ messages'[Len(messages')].from_user = call'[p].input[1]
             /\ messages'[Len(messages')].to_user = call'[p].input[2]]_vars

C11_Witness ==
    \E p \in Sessions :
        /\ Done(p) /\ IsSend(p)
        /\ result[p] = <<TRUE, SendSuccess>>
        /\ call[p].input[1] = igor
        /\ Len(messages) = 2
        /\ messages[2].from_user = igor /\ messages[2].to_user = pedro

\* C12: a send_message call with a body of fewer than 50 characters returns the
\* length error without calling encrypt_message or create_message and leaves the
\* collection unchanged; a body of 50 characters or more never gets the length
\* error (49 is rejected, 50 passes).
C12_ShortBodyRejected ==
    [][\A p \in Sessions :
          SendStep(p)
          => /\ Len(call'[p].input[3]) < 50
                  => /\ result'[p] = <<FALSE, ShortMessageError>>
                     /\ ~call'[p].encrypt_called
                     /\ ~call'[p].create_called
                     /\ messages' = messages
             /\ Len(call'[p].input[3]) >= 50
                  => result'[p] # <<FALSE, ShortMessageError>>]_vars

C12_Witness ==
    \E p \in Sessions :
        /\ Done(p) /\ IsSend(p)
        /\ Len(call[p].input[3]) = 49
        /\ result[p] = <<FALSE, ShortMessageError>>
        /\ \E id \in 1..Len(messages) :
             Plaintext(messages[id]) = Body50 /\ Len(Body50) = 50

\* The decimal digits among the characters of the passphrases.
DecimalChars == {"1", "2", "3", "4"}

\* A passphrase of at least 8 characters with an alphabetic character and a decimal
\* digit.
MeetsPolicy(key) ==
    /\ Len(key) >= 8
    /\ \E i \in 1..Len(key) : key[i] \in AlphaChars
    /\ \E i \in 1..Len(key) : key[i] \in DecimalChars

\* C13: validate_password_strength accepts a passphrase exactly when it has at least
\* 8 characters, an alphabetic character and a decimal digit: a send_message call
\* that gets to the passphrase check returns the weak-key error exactly when the
\* passphrase does not meet this, and then creates no message. The empty passphrase,
\* "abcdefg" and "abcdefgh" are rejected and "abcd1234" is accepted.
C13_PasswordPolicy ==
    /\ \A p \in Sessions :
         (Done(p) /\ IsSend(p) /\ result[p] # <<FALSE, RecipientError(call[p].input[2])>>)
         => /\ MeetsPolicy(call[p].input[4]) <=> result[p] # <<FALSE, WeakKeyError>>
            /\ ~MeetsPolicy(call[p].input[4]) => ~call[p].create_called
    /\ ~ValidatePasswordStrength(EmptyKey)
    /\ ~ValidatePasswordStrength(Abcdefg)
    /\ ~ValidatePasswordStrength(Abcdefgh)
    /\ ValidatePasswordStrength(Abcd1234)

\* C14: a send_message call rejected for its recipient tells the two causes apart: a
\* recipient that starts with '@' and is not in the directory gets the not-found
\* error, a recipient that does not start with '@' gets another error, never the
\* not-found one.
C14_RecipientErrorsDistinct ==
    \A p \in Sessions :
        (Done(p) /\ IsSend(p) /\ Len(call[p].input[3]) >= 50)
        => LET to_user == call[p].input[2]
           IN  /\ (to_user[1] = "@" /\ to_user \notin users)
                    => result[p] = <<FALSE, RecipientError(to_user)>>
               /\ to_user[1] # "@"
                    => /\ result[p][1] = FALSE
                       /\ result[p][2] # RecipientError(to_user)

\* C15: a send_message call that returns failure (short body, recipient, weak
\* passphrase, encryption failure, storage failure) leaves the collection as it was;
\* create_message is called only after the three validations passed and
\* encrypt_message returned.
C15_FailedSendChangesNothing ==
    [][\A p \in Sessions :
          SendStep(p)
          => /\ ~result'[p][1] => messages' = messages
             /\ call'[p].create_called
                  => /\ Len(call'[p].input[3]) >= 50
                     /\ call'[p].input[2][1] = "@"
                     /\ call'[p].input[2] \in users
                     /\ call'[p].input[4] \notin {Abcdefg, Abcdefgh, EmptyKey}
                     /\ call'[p].encrypt_called
                     /\ result'[p] # <<FALSE, EncryptError>>]_vars

C15_Witness ==
    \E p \in Sessions :
        /\ Done(p) /\ IsSend(p)
        /\ result[p] = <<FALSE, SaveError>>
        /\ call[p].create_called
        /\ Len(messages) = 1

----------------------------------------------------------------------------
(* C16..C20: the envelope *)

\* The call of p is a read_message call given the document (message) and the
\* passphrase (secret_key) that send_message stored and was given for input.
ReadsSent(p, input) ==
    /\ call[p].op = "read"
    /\ call[p].message # None
    /\ \E salt \in SaltValues, nonce \in NonceValues :
         call[p].message.content_encrypted =
             EncryptMessage(input[3], input[4], salt, nonce)
    /\ call[p].secret_key = input[4]

\* C16: round trip. The document a successful send_message stores decrypts, with the
\* passphrase of the send, to exactly the body of the send; the first read_message
\* call by the recipient with that passphrase gets through decryption and returns
\* exactly that body.
C16_RoundTrip ==
    [][\A p \in Sessions :
          /\ (SendStep(p) /\ result'[p] = <<TRUE, SendSuccess>>)
             => DecryptMessage(messages'[Len(messages')].content_encrypted,
                               call'[p].input[4])
                  = [ok |-> TRUE, derived |-> TRUE, value |-> call'[p].input[3]]
          /\ \A input \in SendInputs :
               /\ (pc[p] = "decrypt" /\ pc'[p] # "decrypt" /\ ReadsSent(p, input))
                  => /\ pc'[p] = "mark"
                     /\ call'[p].decrypted_content = input[3]
               /\ (pc[p] = "mark" /\ pc'[p] # "mark" /\ ReadsSent(p, input))
                  => /\ pc'[p] = "done"
                     /\ result'[p] = <<TRUE, ReadSuccess, input[3]>>]_vars

C16_Witness ==
    \E p \in Sessions :
        /\ Done(p) /\ IsRead(p)
        /\ call[p].username = pedro
        /\ call[p].secret_key = Abcd1234
        /\ result[p] = <<TRUE, ReadSuccess, Body50>>

\* C17: decrypt_message with a passphrase other than the one the envelope was made
\* with fails and gives no plaintext: for every stored document and every
\* passphrase but the one of its send, it raises and returns none of the bodies.
C17_OtherPassphraseFails ==
    \A id \in 1..Len(messages) :
        \A input \in PolicyInputs :
            (\E salt \in SaltValues, nonce \in NonceValues :
                messages[id].content_encrypted =
                    EncryptMessage(input[3], input[4], salt, nonce))
            => \A key \in (PolicyKeys \cup ReadKeys) \ {input[4]} :
                 LET decrypted == DecryptMessage(messages[id].content_encrypted, key)
                 IN  /\ ~decrypted.ok
                     /\ decrypted.value \notin {Body49, Body50, Body52}

C17_Witness ==
    /\ Len(messages) = 2
    /\ messages[1].content_encrypted \in
         {EncryptMessage(Body52, Secret123, salt, nonce) :
             salt \in SaltValues, nonce \in NonceValues}
    /\ messages[2].content_encrypted \in
         {EncryptMessage(Body52, Abcd1234, salt, nonce) :
             salt \in SaltValues, nonce \in NonceValues}
    /\ ~DecryptMessage(messages[1].content_encrypted, Abcd1234).ok
    /\ ~DecryptMessage(messages[2].content_encrypted, Secret123).ok

\* C18: a stored envelope with one position altered (in the salt, the nonce, the
\* ciphertext or the tag) does not decrypt with the passphrase of its send: the
\* read_message call of the recipient ends at decryption with the wrong-key error
\* and no plaintext, and the message stays as it was, unread.
C18_AlteredEnvelopeFails ==
    [][\A p \in Sessions :
          (/\ pc[p] = "decrypt" /\ pc'[p] # "decrypt"
           /\ call[p].secret_key = Secret123
           /\ call[p].message.content_encrypted \in AlteredTexts)
          => /\ pc'[p] = "done"
             /\ result'[p] = <<FALSE, WrongKeyError, "">>
             /\ messages' = messages
             /\ messages[call[p].message_id].status = "unread"]_vars

C18_Witness ==
    \E p \in Sessions :
        /\ FailedWith(p, WrongKeyError)
        /\ call[p].secret_key = Secret123
        /\ call[p].message # None
        /\ call[p].message.content_encrypted = B64Encode(AlterAt(ValidData, Len(ValidData)))
        /\ messages[2].status = "unread"

\* The call of p has the passphrase of the send and a stored text that is not the
\* one the send stored / the stored text of the send and another passphrase.
CorruptedEnvelope(p) ==
    /\ call[p].secret_key = Secret123
    /\ call[p].message.content_encrypted \in AlteredTexts \cup MalformedTexts
WrongPassphrase(p) ==
    /\ call[p].secret_key # Secret123
    /\ call[p].message.content_encrypted = B64Encode(ValidData)

\* C19: a read_message call that fails in decryption reports the same for a wrong
\* passphrase and for a corrupted envelope: in both cases the same tuple, the
\* wrong-key error with no content, and the collection unchanged.
C19_SameOutcomeForBothCauses ==
    [][\A p \in Sessions :
          (/\ pc[p] = "decrypt" /\ pc'[p] # "decrypt"
           /\ CorruptedEnvelope(p) \/ WrongPassphrase(p))
          => /\ pc'[p] = "done"
             /\ result'[p] = <<FALSE, WrongKeyError, "">>
             /\ messages' = messages]_vars

C19_Witness ==
    \E p, q \in Sessions :
        /\ FailedWith(p, WrongKeyError) /\ FailedWith(q, WrongKeyError)
        /\ call[p].message # None /\ call[q].message # None
        /\ WrongPassphrase(p)
        /\ CorruptedEnvelope(q)
        /\ result[p] = result[q]
        /\ messages[1].status = "unread" /\ messages[2].status = "unread"

\* C20: a stored text that is not validly encoded, or decodes to fewer than 28 bytes,
\* fails before any key derivation, and the read_message call on it reports a format
\* error, an error other than the wrong-key one.
C20_FormatErrorIsDistinct ==
    \A p \in Sessions :
        (/\ Done(p) /\ IsRead(p)
         /\ call[p].message # None
         /\ call[p].username = call[p].message.to_user
         /\ call[p].message.status = "unread"
         /\ call[p].secret_key # EmptyKey
         /\ call[p].message.content_encrypted \in MalformedTexts)
        => /\ ~DecryptMessage(call[p].message.content_encrypted, call[p].secret_key).derived
           /\ result[p][1] = FALSE
           /\ result[p][2] # WrongKeyError

----------------------------------------------------------------------------
(* C21..C28: storage failures, what is stored, listings *)

\* In this step the read_message call of p leaves its status update.
LeavesMark(p) == pc[p] = "mark" /\ pc'[p] # "mark"

\* C21: a storage failure during a read or a send is reported as an error of its
\* own: a read_message call whose fetch of a stored message raised, or whose status
\* update raised and left the message unread, returns failure with an error that is
\* neither the not-found nor the already-read one; a send_message call whose insert
\* raised returns failure with the save error.
C21_StorageFailureReported ==
    [][\A p \in Sessions :
          /\ (/\ BeginsRead(p)
              /\ Stored(call'[p].message_id)
              /\ call'[p].message = None)
             => /\ pc'[p] = "done"
                /\ result'[p][1] = FALSE
                /\ result'[p][2] \notin {NotFoundError, AlreadyReadError}
          /\ (/\ LeavesMark(p)
              /\ messages[call[p].message_id].status = "unread"
              /\ messages'[call[p].message_id].status = "unread")
             => /\ pc'[p] = "done"
                /\ result'[p][1] = FALSE
                /\ result'[p][2] \notin {NotFoundError, AlreadyReadError}
          /\ (SendStep(p) /\ call'[p].create_called /\ messages' = messages)
             => result'[p] = <<FALSE, SaveError>>]_vars

\* The fields of a document of the "messages" collection.
MessageFields == {"from_user", "to_user", "content_encrypted", "status", "sent_at"}

\* The text is the base64 of an envelope: salt_length + nonce_length bytes, then
\* the ciphertext and the tag AESGCM made, which only the key opens.
IsEnvelope(text) ==
    /\ B64Valid(text)
    /\ LET data == B64Decode(text)
       IN  /\ Len(data) = salt_length + nonce_length + 2
           /\ \A i \in 1..(salt_length + nonce_length) : data[i] \in 0..255
           /\ data[salt_length + nonce_length + 1].part = "ciphertext"
           /\ data[salt_length + nonce_length + 2].part = "tag"

\* In this step the read_message call of p begins or goes on.
ReadStep(p) ==
    \/ BeginsRead(p)
    \/ pc[p] = "decrypt" /\ pc'[p] # "decrypt"
    \/ LeavesMark(p)

\* C22: no stored document holds the body or the passphrase of its send: a document
\* has the fields from_user, to_user, content_encrypted, status and sent_at only,
\* the two usernames are usernames, the status is a status, sent_at is a time, and
\* content_encrypted is an envelope; and a step of read_message writes nothing to
\* the collection but the status of a document.
C22_NoPlaintextStored ==
    /\ [](\A id \in 1..Len(messages) :
            LET doc == messages[id]
            IN  /\ DOMAIN doc = MessageFields
                /\ doc.from_user \in users
                /\ doc.to_user \in users
                /\ doc.status \in {"unread", "read"}
                /\ doc.sent_at \in Nat
                /\ IsEnvelope(doc.content_encrypted))
    /\ [][\A p \in Sessions :
            ReadStep(p)
            => /\ Len(messages') = Len(messages)
               /\ \A id \in 1..Len(messages) :
                    messages'[id] = [messages[id] EXCEPT !.status = messages'[id].status]]_vars

C22_Witness ==
    \E p \in Sessions :
        /\ Succeeded(p)
        /\ result[p][3] = Body52
        /\ Len(messages) = 2
        /\ messages[call[p].message_id].status = "read"
        /\ IsEnvelope(messages[call[p].message_id].content_encrypted)
        /\ \E id \in 1..2 : Plaintext(messages[id]) = Body50 /\ SentKey(messages[id]) = Abcd1234

\* C23: a stored message is never removed and its _id, from_user, to_user,
\* content_encrypted and sent_at never change: in every step of every operation the
\* documents stored before are still stored under their _id, equal to what they were
\* but for the status; a status changes only in the status update of a read_message
\* call, and only that of the message the call was given.
C23_OnlyStatusOfTargetChanges ==
    [][/\ Len(messages') >= Len(messages)
       /\ \A id \in 1..Len(messages) :
            /\ messages'[id] = [messages[id] EXCEPT !.status = messages'[id].status]
            /\ messages'[id].status # messages[id].status
               => \E p \in Sessions : LeavesMark(p) /\ call[p].message_id = id
       /\ \A p \in Sessions :
            LeavesMark(p)
            => \A id \in 1..Len(messages) :
                 id # call[p].message_id => messages'[id] = messages[id]]_vars

C23_Witness ==
    \E p \in Sessions :
        /\ Succeeded(p)
        /\ call[p].message_id = 2
        /\ Len(messages) = 2
        /\ messages[2].status = "read"
        /\ messages[1].status = "unread"
        /\ messages[1].to_user = messages[2].to_user
        /\ messages[1].sent_at = 1 /\ messages[2].sent_at = 2

\* In this step session p lists its unread messages (the call runs to its return).
ListStep(p) == pc[p] = "idle" /\ pc'[p] = "done" /\ call'[p].op = "list"

\* C24: the list get_unread_messages_by_user returns, when find answers, holds
\* exactly the stored messages whose to_user is the user and whose status is
\* "unread", each once, newest sent_at first; and it holds no message whose
\* plaintext a read_message call has returned before.
C24_UnreadListing ==
    [][\A p \in Sessions :
          (ListStep(p) /\ call'[p].find_ok)
          => LET listed == call'[p].messages
                 username == call'[p].username
             IN  /\ {listed[i] : i \in 1..Len(listed)}
                      = {id \in 1..Len(messages) :
                           /\ messages[id].to_user = username
                           /\ messages[id].status = "unread"}
                 /\ \A i, j \in 1..Len(listed) :
                      i < j => messages[listed[i]].sent_at > messages[listed[j]].sent_at
                 /\ \A i \in 1..Len(listed) : listed[i] \notin revealed]_vars

\* C25: the recipient test comes before the already-read test: a read_message call
\* by anyone but the recipient that fetches a message whose status is "read" returns
\* AccessDeniedError, not AlreadyReadError, which is the tuple the same call gets
\* for an unread message: the status does not show in what a non-recipient gets.
C25_RecipientCheckFirst ==
    [][\A p \in Sessions :
          (/\ BeginsRead(p)
           /\ call'[p].message # None
           /\ call'[p].message.status = "read"
           /\ call'[p].username # call'[p].message.to_user)
          => /\ pc'[p] = "done"
             /\ result'[p][2] # AlreadyReadError
             /\ result'[p] = <<FALSE,
                               ReadCheck([call'[p].message EXCEPT !.status = "unread"],
                                         call'[p].username),
                               "">>
             /\ result'[p][2] = AccessDeniedError]_vars

C25_Witness ==
    \E p \in Sessions :
        /\ FailedWith(p, AccessDeniedError)
        /\ Fetched(p)
        /\ call[p].message.status = "read"
        /\ call[p].username = call[p].message.from_user
        /\ call[p].secret_key = SentKey(call[p].message)

\* In this step session p calls mark_message_as_read (the call runs to its return).
MarkStep(p) == pc[p] = "idle" /\ pc'[p] = "done" /\ call'[p].op = "mark"

\* C26: mark_message_as_read returns true exactly when the call changed the message
\* from "unread" to "read"; on a message already "read" or an _id that matches no
\* document it returns false and leaves the collection unchanged, as does every call
\* that returns false; and a second call after one that applied returns false and
\* changes nothing.
C26_MarkReturnsWhetherApplied ==
    /\ [][\A p \in Sessions :
            MarkStep(p)
            => LET id == call'[p].message_id
                   applied == /\ Stored(id)
                              /\ messages[id].status = "unread"
                              /\ messages'[id].status = "read"
               IN  /\ result'[p][1] <=> applied
                   /\ ~result'[p][1] => messages' = messages
                   /\ (~Stored(id) \/ messages[id].status = "read") => ~result'[p][1]]_vars
    /\ [](\A id \in ReadIds(messages) :
            LET once == MarkMessageAsRead(messages, id, TRUE)
                twice == MarkMessageAsRead(once.messages, id, TRUE)
            IN  twice.messages = once.messages /\ ~twice.returned)

C26_Witness ==
    \E p \in Sessions :
        /\ Done(p) /\ call[p].op = "mark"
        /\ result[p] = <<FALSE>>
        /\ Len(messages) = 2
        /\ call[p].message_id = 2
        /\ messages[2].status = "read"
        /\ messages[1].status = "unread"

\* C27: a read_message call with an _id that matches no stored message returns
\* NotFoundError and no plaintext and leaves the collection unchanged, whoever the
\* requester and whatever the passphrase.
C27_UnknownIdNotFound ==
    [][\A p \in Sessions :
          (BeginsRead(p) /\ ~Stored(call'[p].message_id))
          => /\ pc'[p] = "done"
             /\ result'[p] = <<FALSE, NotFoundError, "">>
             /\ messages' = messages]_vars

C27_Witness ==
    \E p \in Sessions :
        /\ FailedWith(p, NotFoundError)
        /\ ~Stored(call[p].message_id)
        /\ call[p].username = igor
        /\ call[p].secret_key = Secret123
        /\ Len(messages) = 2
        /\ \A id \in 1..2 : /\ messages[id].to_user = igor
                            /\ messages[id].status = "unread"
                            /\ SentKey(messages[id]) = Secret123

\* C28: a message is "read" only if a read_message call by its to_user, with the
\* passphrase of its send, decrypted it: a status goes from "unread" to "read" only
\* in the status update of such a call, which holds the body of the message; so no
\* call by the sender or a third user, or with another passphrase, and no send,
\* count or listing makes a message "read". A message that is "read" is one whose
\* plaintext a call has returned.
C28_ReadOnlyAfterDecryption ==
    /\ [][\A id \in 1..Len(messages) :
            (messages[id].status = "unread" /\ messages'[id].status = "read")
            => \E p \in Sessions :
                 /\ LeavesMark(p)
                 /\ call[p].message_id = id
                 /\ call[p].username = messages[id].to_user
                 /\ call[p].secret_key = SentKey(messages[id])
                 /\ call[p].decrypted_content = Plaintext(messages[id])]_vars
    /\ [](\A id \in 1..Len(messages) : messages[id].status = "read" => id \in revealed)

C28_Witness ==
    \E p, q \in Sessions :
        /\ Len(messages) = 2
        /\ messages[1].status = "read" /\ 1 \in revealed
        /\ messages[2].status = "unread"
        /\ FailedWith(p, WrongKeyError)
        /\ call[p].message_id = 2 /\ ByRecipient(p)
        /\ FailedWith(q, AccessDeniedError)
        /\ call[q].message_id = 2 /\ WithSentKey(q)

----------------------------------------------------------------------------
(* C29: SystemService.current_user *)

\* In this step session p makes a call of SystemService (it runs to its return).
SystemStep(p, op) == pc[p] = "idle" /\ pc'[p] = "done" /\ call'[p].op = op

\* C29: current_user is always None or a username of the directory that starts with
\* '@'; login returns true only for such a username and then current_user is that
\* username; a login that fails, because the username is malformed or unknown or
\* the lookup failed, leaves current_user as it was; logout and shutdown leave it
\* None.
C29_CurrentUser ==
    /\ [](\A p \in Sessions :
            \/ current_user[p] = NoUser
            \/ current_user[p][1] = "@" /\ current_user[p] \in users)
    /\ [][\A p \in Sessions :
            /\ SystemStep(p, "login")
               => LET username == call'[p].username
                  IN  /\ result'[p][1]
                           => /\ Len(username) > 0 /\ username[1] = "@"
                              /\ username \in users
                              /\ current_user'[p] = username
                      /\ (username \notin users \/ username = <<>> \/ username[1] # "@")
                           => result'[p] = <<FALSE>>
                      /\ ~result'[p][1] => current_user'[p] = current_user[p]
            /\ (SystemStep(p, "logout") \/ SystemStep(p, "shutdown"))
               => current_user'[p] = NoUser]_vars

C29_Witness ==
    \E p, q \in Sessions :
        /\ Done(p) /\ call[p].op = "login"
        /\ call[p].username = zeca
        /\ result[p] = <<FALSE>>
        /\ current_user[p] = igor
        /\ current_user[q] = NoUser

====
